---- MODULE Spec2Model ----
(***************************************************************************)
(* The SBMS0 serial battery driver (etc/dbus-serialbattery/sbms0.py):      *)
(* the base-91 field decoder dcmp, the frame interpreter                   *)
(* Sbms0.process_status_data and the two ways a line reaches it            *)
(* (test_connection, and the GLib io watch callback _uart_rx).             *)
(*                                                                         *)
(* Units.  The code works in floats; the model keeps the same quantities   *)
(* as integers:                                                            *)
(*   cell voltage, pack voltage : millivolts  (code value = mV / 1000.0)   *)
(*   temp1, temp2               : tenths of a degree (code value = t/10.0) *)
(*   current                    : [num, den], code value =                 *)
(*                                (num / den) / 1000.0 ampere              *)
(* A comparison of the code against a constant is scaled accordingly.      *)
(* A character is its code point (ord); a line is a sequence of them,      *)
(* Python index p being index p + 1 here.                                  *)
(***************************************************************************)
EXTENDS Integers, Sequences, FiniteSets, TLC

VARIABLES
    self,     \* the Sbms0 object: the fields process_status_data and get_settings write
    watch,    \* TRUE while _uart_rx is registered with the event loop (io_add_watch)
    phase,    \* where the driver is: "new", "tested", "running", "failed"
    line,     \* the line handed to the last call of process_status_data
    ret,      \* how that call ended: "none", "True", "False", "raise"
    comp,     \* dcmp called on its own: the compressed data,
    pos,      \*   the location,
    size,     \*   the size,
    decomp    \*   and what dcmp returned (None before the call)

vars == <<self, watch, phase, line, ret, comp, pos, size, decomp>>

----------------------------------------------------------------------------
(* Python values *)

None == <<>>
Some(v) == <<v>>
Val(x) == x[1]

\* Python truthiness of an int-or-None: `not x`
Not(x) == x = None \/ x = Some(0)

Max(a, b) == IF a >= b THEN a ELSE b
Min(a, b) == IF a <= b THEN a ELSE b

\* comp[p] of the code
ord(s, p) == s[p + 1]

\* buf.strip(): leading and trailing white space removed
IsSpace(c) == c \in {9, 10, 11, 12, 13, 32}
RECURSIVE lstrip(_)
lstrip(s) == IF s # <<>> /\ IsSpace(Head(s)) THEN lstrip(Tail(s)) ELSE s
RECURSIVE rstrip(_)
rstrip(s) ==
    IF s # <<>> /\ IsSpace(s[Len(s)]) THEN rstrip(SubSeq(s, 1, Len(s) - 1)) ELSE s
strip(s) == rstrip(lstrip(s))

\* len(str(n)) for n >= 0
RECURSIVE DecimalLen(_)
DecimalLen(n) == IF n < 10 THEN 1 ELSE 1 + DecimalLen(n \div 10)

\* a & b for b >= 0 (two's complement on a, as Python's int)
RECURSIVE BitAnd(_, _)
BitAnd(a, b) ==
    IF b = 0 THEN 0 ELSE (a % 2) * (b % 2) + 2 * BitAnd(a \div 2, b \div 2)

----------------------------------------------------------------------------
(* Module constants *)

BATTERY_CELL_BALANCE_ALARM == 100
BATTERY_CELL_BALANCE_WARN == 50
BATTERY_SOC_ALARM == 10
BATTERY_SOC_WARN == 20
BATTERY_TEMP_HIGH_ALARM == 40
SBMS_CELL_COUNT_MAX == 8
LENGTH_FIXED == 59

SBMS_STATUS_CODES ==
    << "OV", "OVLK", "UV", "UVLK", "IOT", "COC", "DOC", "DSC",
       "CELF", "OPEN", "LVC", "ECCF", "CFET", "EOC", "DFET" >>

----------------------------------------------------------------------------
(* dcmp *)

RECURSIVE dcmp_loop(_, _, _, _)
dcmp_loop(c, p, n, i) ==
    IF i >= n THEN 0
    ELSE (ord(c, (p + n - 1) - i) - 35) * (91 ^ i) + dcmp_loop(c, p, n, i + 1)

\* a plausible slip: the character at the lowest index taken as least significant
dcmp_lsb_first(c, p, n) ==
    LET RECURSIVE go(_)
        go(i) == IF i >= n THEN 0 ELSE (ord(c, p + i) - 35) * (91 ^ i) + go(i + 1)
    IN go(0)

dcmp(c, p, n) == dcmp_loop(c, p, n, 0)

----------------------------------------------------------------------------
(* The Battery base class (battery.py), as far as Sbms0 uses it *)

ProtectionFields ==
    { "voltage_high", "voltage_low", "voltage_cell_low", "soc_low",
      "current_over", "current_under", "cell_imbalance", "internal_failure",
      "temp_high_charge", "temp_low_charge", "temp_high_discharge",
      "temp_low_discharge" }

\* Battery.__init__: nothing is known yet, the cell list is empty
Battery ==
    [ cell_count |-> None, cells |-> <<>>,
      soc |-> None, voltage |-> None, current |-> None,
      temp1 |-> None, temp2 |-> None,
      charge_fet |-> None, discharge_fet |-> None,
      protection |-> [f \in ProtectionFields |-> None],
      hardware_version |-> None,
      max_battery_voltage |-> None, min_battery_voltage |-> None ]

\* Cell(False): a cell without a voltage
Cell == None

\* the voltages the cells hold (millivolts)
RecordedVoltages(s) ==
    { Val(s.cells[i]) : i \in { j \in DOMAIN s.cells : s.cells[j] # None } }

SetMax(S) == CHOOSE x \in S : \A y \in S : y <= x
SetMin(S) == CHOOSE x \in S : \A y \in S : x <= y

\* get_max_cell_voltage() - get_min_cell_voltage(), in millivolts: the
\* difference of the largest and the smallest recorded voltage.  With no
\* voltage recorded the two getters have nothing to compare: the subtraction
\* either raises (None) or yields a difference that exceeds no threshold.
get_cell_voltage_delta(s) ==
    IF RecordedVoltages(s) = {} THEN { None, Some(0) }
    ELSE { Some(SetMax(RecordedVoltages(s)) - SetMin(RecordedVoltages(s))) }

get_max_temp(s) == Max(Val(s.temp1), Val(s.temp2))
get_min_temp(s) == Min(Val(s.temp1), Val(s.temp2))

----------------------------------------------------------------------------
(* Sbms0.process_status_data, statement by statement *)

\* lines 118-119: the eight decoded slot voltages (millivolts)
cell_voltages(ln) ==
    [cell \in 1..SBMS_CELL_COUNT_MAX |-> dcmp(ln, 8 + (cell - 1) * 2, 2)]

\* a plausible slip: the cells are re-created on every frame
learn_cells_always(s, cv) ==
    [s EXCEPT !.cells = [c \in 1..SBMS_CELL_COUNT_MAX |-> Cell],
              !.cell_count =
                  IF Not(s.cell_count)
                  THEN Some(Cardinality({c \in DOMAIN cv : cv[c] > 0}))
                  ELSE s.cell_count]

\* lines 120-122
learn_cells(s, cv) ==
    IF Not(s.cell_count)
    THEN [s EXCEPT !.cells = [c \in 1..SBMS_CELL_COUNT_MAX |-> Cell],
                   !.cell_count = Some(Cardinality({c \in DOMAIN cv : cv[c] > 0}))]
    ELSE s

\* lines 123-125
record_cells(s, cv) ==
    [s EXCEPT !.cells =
        [c \in DOMAIN s.cells |-> IF cv[c] > 0 THEN Some(cv[c]) ELSE s.cells[c]]]

\* a plausible slip: bit i + 1 read for the i-th name
status_shifted(flags) ==
    [i \in DOMAIN SBMS_STATUS_CODES |-> BitAnd(flags, 2 ^ i) # 0]

\* lines 129-130: status[SBMS_STATUS_CODES[i]], i counted from 1 here
status(flags) ==
    [i \in DOMAIN SBMS_STATUS_CODES |-> BitAnd(flags, 2 ^ (i - 1)) # 0]

\* status['NAME']
IndexOf(name) == CHOOSE i \in DOMAIN SBMS_STATUS_CODES : SBMS_STATUS_CODES[i] = name
flag(st, name) == st[IndexOf(name)]

\* a plausible slip: the sign character is dropped
parse_current_unsigned(ch, mag) ==
    IF mag < 0 THEN None ELSE Some([num |-> mag, den |-> 1])

\* line 134: float(line[28] + str(dcmp(line, 29, 3))), in milliampere; None
\* when float() raises ValueError.  str of a negative number starts with '-',
\* which no character before it makes a numeral.
parse_current(ch, mag) ==
    IF mag < 0 THEN None
    ELSE IF ch = 45 THEN Some([num |-> 0 - mag, den |-> 1])                \* '-'
    ELSE IF ch = 43 THEN Some([num |-> mag, den |-> 1])                    \* '+'
    ELSE IF ch \in 48..57                                                  \* a digit
         THEN Some([num |-> (ch - 48) * (10 ^ DecimalLen(mag)) + mag, den |-> 1])
    ELSE IF ch = 46 THEN Some([num |-> mag, den |-> 10 ^ DecimalLen(mag)]) \* '.'
    ELSE None

\* line 148: the delta is a difference of volts, the thresholds are the bare
\* numbers 100 and 50
cell_imbalance(delta) ==
    IF delta > BATTERY_CELL_BALANCE_ALARM * 1000 THEN 2
    ELSE IF delta > BATTERY_CELL_BALANCE_WARN * 1000 THEN 1 ELSE 0

\* lines 142-153, on the object with soc, current and temperatures set
protection(s, st, delta) ==
    LET hot == flag(st, "IOT")
               \/ (Val(s.current).num > 0
                   /\ get_max_temp(s) >= BATTERY_TEMP_HIGH_ALARM * 10)
        cold == get_min_temp(s) <= BATTERY_TEMP_HIGH_ALARM * 10
    IN  [ voltage_high |-> Some(IF flag(st, "OVLK") THEN 2 ELSE 0),
          voltage_low |-> Some(IF flag(st, "UVLK") THEN 2 ELSE 0),
          voltage_cell_low |-> Some(IF flag(st, "LVC") THEN 2 ELSE 0),
          soc_low |-> Some(IF Val(s.soc) < BATTERY_SOC_ALARM THEN 2
                           ELSE IF Val(s.soc) < BATTERY_SOC_WARN THEN 1 ELSE 0),
          current_over |-> Some(IF flag(st, "COC") THEN 2 ELSE 0),
          current_under |-> Some(IF flag(st, "DOC") THEN 2 ELSE 0),
          cell_imbalance |-> Some(cell_imbalance(delta)),
          internal_failure |->
              Some(IF flag(st, "ECCF") \/ flag(st, "OPEN") THEN 2 ELSE 0),
          temp_high_charge |-> Some(IF hot THEN 2 ELSE 0),
          temp_low_charge |-> Some(IF cold THEN 2 ELSE 0),
          temp_high_discharge |-> Some(IF hot THEN 2 ELSE 0),
          temp_low_discharge |-> Some(IF cold THEN 2 ELSE 0) ]

\* a plausible slip: the sum of the recorded voltages
pack_voltage_recorded(s, cv) ==
    LET RECURSIVE sum(_)
        sum(i) == IF i = 0 THEN 0
                  ELSE (IF s.cells[i] = None THEN 0 ELSE Val(s.cells[i])) + sum(i - 1)
    IN sum(Len(s.cells))

\* line 133: round(sum(cell_voltages), 3), in millivolts
pack_voltage(s, cv) ==
    LET RECURSIVE sum(_)
        sum(i) == IF i = 0 THEN 0 ELSE cv[i] + sum(i - 1)
    IN sum(Len(cv))

\* a plausible slip: a longer line let through
length_ok_at_least(ln) == Len(ln) >= LENGTH_FIXED

\* line 115
length_ok(ln) == Len(ln) = LENGTH_FIXED

\* lines 132-155 once the delta is known
finish_status_data(s, ln, cv, delta) ==
    LET st == status(dcmp(ln, 56, 3))
        s1 == [s EXCEPT !.soc = Some(dcmp(ln, 6, 2)),
                        !.voltage = Some(pack_voltage(s, cv))]
        cur == parse_current(ord(ln, 28), dcmp(ln, 29, 3))
        s2 == [s1 EXCEPT !.current = Some(Val(cur)),
                         !.temp1 = Some(dcmp(ln, 24, 2) - 450),
                         !.temp2 = Some(dcmp(ln, 26, 2) - 450),
                         !.charge_fet = Some(flag(st, "CFET")),
                         !.discharge_fet = Some(flag(st, "DFET"))]
        s3 == [s2 EXCEPT !.protection = protection(s2, st, delta),
                         !.hardware_version = Some(Val(s.cell_count))]
    IN  IF cur = None THEN [self |-> s1, ret |-> "raise"]
        ELSE [self |-> s3, ret |-> "True"]

\* The whole method: the set of ways it can end, each the object afterwards
\* and "True", "False" or "raise".
process_status_data(s, ln) ==
    IF ~length_ok(ln) THEN { [self |-> s, ret |-> "False"] }
    ELSE LET cv == cell_voltages(ln)
             s1 == record_cells(learn_cells(s, cv), cv)
         IN  { IF d = None THEN [self |-> s1, ret |-> "raise"]
               ELSE finish_status_data(s1, ln, cv, Val(d))
               : d \in get_cell_voltage_delta(s1) }

----------------------------------------------------------------------------
(* The lines the device can send *)

\* the base-91 numeral of v in n characters, most significant first
RECURSIVE enc(_, _)
enc(v, n) == IF n = 0 THEN <<>> ELSE Append(enc(v \div 91, n - 1), 35 + (v % 91))

RECURSIVE Fill(_, _)
Fill(c, n) == IF n = 0 THEN <<>> ELSE <<c>> \o Fill(c, n - 1)

RECURSIVE encAll(_, _)
encAll(vs, n) == IF vs = <<>> THEN <<>> ELSE enc(Head(vs), n) \o encAll(Tail(vs), n)

\* a frame in the layout the offsets of process_status_data read
Frame(f) ==
    Fill(35, 6) \o enc(f.soc, 2) \o encAll(f.cv, 2) \o enc(f.t1, 2) \o enc(f.t2, 2)
        \o <<f.sign>> \o enc(f.mag, 3) \o Fill(35, 24) \o enc(f.flags, 3)

\* the character at Python index p replaced
Put(ln, p, c) == [ln EXCEPT ![p + 1] = c]

CellPatterns ==
    { <<0, 0, 0, 0, 0, 0, 0, 0>>,
      <<3300, 3300, 0, 0, 0, 0, 0, 3300>>,
      <<3300, 3300, 3290, 0, 0, 0, 0, 3300>>,
      <<3300, 3350, 0, 0, 0, 0, 0, 3300>>,
      <<3300, 3351, 0, 0, 0, 0, 0, 3300>>,
      <<3300, 3400, 0, 0, 0, 0, 0, 3300>>,
      <<3300, 3401, 0, 0, 0, 0, 0, 3300>>,
      <<3300, 0, 0, 0, 0, 0, 0, 0>> }

\* '-', '+', '#', '1', '.'
SignChars == {45, 43, 35, 49, 46}

FlagValues == {0, 2, 4096, 16384, 20480, 32767, 32768, 53248}
SocValues == {9, 10, 19, 20}
TempValues == {450, 850, 851}

BaseFields ==
    [ soc |-> 50, cv |-> <<3300, 3300, 0, 0, 0, 0, 0, 3300>>, t1 |-> 650, t2 |-> 650,
      sign |-> 43, mag |-> 500, flags |-> 20480 ]

BaseFrame == Frame(BaseFields)

Frames ==
    { Frame([BaseFields EXCEPT !.cv = p, !.sign = s]) : p \in CellPatterns, s \in SignChars }
    \cup { Frame([BaseFields EXCEPT !.flags = f]) : f \in FlagValues }
    \cup { Frame([BaseFields EXCEPT !.soc = v]) : v \in SocValues }
    \cup { Frame([BaseFields EXCEPT !.t1 = v, !.sign = s]) : v \in TempValues, s \in {45, 43} }

\* 59 characters, one of them outside '#'..'}'
BadDigitFrames ==
    { Put(BaseFrame, 7, 34), Put(BaseFrame, 11, 33), Put(BaseFrame, 57, 126),
      Put(BaseFrame, 30, 32), Put(BaseFrame, 10, 1200) }

\* not 59 characters
WrongLengthLines ==
    { <<>>, SubSeq(BaseFrame, 1, 58), BaseFrame \o <<35>>, SubSeq(BaseFrame, 1, 30) }

Lines == Frames \cup BadDigitFrames \cup WrongLengthLines

\* what the serial port delivers: a line with or without its terminator
RawLines ==
    Lines \cup { BaseFrame \o <<13, 10>>, SubSeq(BaseFrame, 1, 58) \o <<10>>,
                 Put(BaseFrame, 7, 34) \o <<10>> }

----------------------------------------------------------------------------
(* The driver *)

Init ==
    /\ self = Battery
    /\ watch = FALSE
    /\ phase = "new"
    /\ line = <<>>
    /\ ret = "none"
    /\ comp = <<>>
    /\ pos = 0
    /\ size = 0
    /\ decomp = None

\* lines 76-81: the line as readline() returns it goes to process_status_data.
\* The driver asks again after False, sets the battery up after True, and
\* does not survive an exception, which nothing here catches.  (The line is a
\* str, as readline() returns it under Python 2.)
test_connection ==
    /\ phase = "new"
    /\ \E raw \in RawLines : \E out \in process_status_data(self, raw) :
          /\ line' = raw
          /\ self' = out.self
          /\ ret' = out.ret
          /\ phase' = IF out.ret = "True" THEN "tested"
                       ELSE IF out.ret = "False" THEN "new" ELSE "failed"
    /\ UNCHANGED <<watch, comp, pos, size, decomp>>

\* lines 83-95: the voltage limits are the per-cell limits of utils times
\* cell_count (kept here as that factor); _uart_rx is registered
get_settings ==
    /\ phase = "tested"
    /\ self' = [self EXCEPT !.max_battery_voltage = self.cell_count,
                            !.min_battery_voltage = self.cell_count]
    /\ watch' = TRUE
    /\ phase' = "running"
    /\ UNCHANGED <<line, ret, comp, pos, size, decomp>>

\* lines 97-104
refresh_data ==
    /\ phase = "running"
    /\ UNCHANGED vars

\* a plausible slip: the watch kept whatever the line was
uart_rx_keep(r, w) == TRUE

\* lines 109-112, and what the event loop does with the callback's answer: the
\* watch stays on True and is removed on False; an exception leaves the
\* callback without an answer
uart_rx_watch(r, w) ==
    IF r = "True" THEN TRUE ELSE IF r = "False" THEN FALSE ELSE w

\* lines 106-112, called by the event loop while the watch is registered
uart_rx ==
    /\ watch = TRUE
    /\ \E buf \in RawLines : \E out \in process_status_data(self, strip(buf)) :
          /\ line' = (IF buf # None THEN strip(buf) ELSE <<>>)
          /\ self' = out.self
          /\ ret' = out.ret
          /\ \E w \in BOOLEAN : watch' = uart_rx_watch(out.ret, w)
    /\ UNCHANGED <<phase, comp, pos, size, decomp>>

Next == test_connection \/ get_settings \/ refresh_data \/ uart_rx

Spec == Init /\ [][Next]_vars

----------------------------------------------------------------------------
(* dcmp on its own *)

MaxSize == 3

\* '#', '$', '%', ',', 'P', '|', '}' : digits 0, 1, 2, 9, 45, 89, 90
DigitChars == {35, 36, 37, 44, 80, 124, 125}

InitDcmp ==
    /\ self = Battery
    /\ watch = FALSE
    /\ phase = "new"
    /\ line = <<>>
    /\ ret = "none"
    /\ comp \in UNION { [1..n -> DigitChars] : n \in 0..MaxSize }
    /\ pos \in 0..Len(comp)
    /\ size \in 0..(Len(comp) - pos)
    /\ decomp = None

call_dcmp ==
    /\ decomp = None
    /\ decomp' = Some(dcmp(comp, pos, size))
    /\ UNCHANGED <<self, watch, phase, line, ret, comp, pos, size>>

NextDcmp == call_dcmp

SpecDcmp == InitDcmp /\ [][NextDcmp]_vars

----------------------------------------------------------------------------
(* What the properties below speak of *)

\* a step that calls process_status_data (every step but get_settings, which
\* is the one step taken in phase "tested")
CallStep == phase # "tested"

\* the slot voltage (mV) the frame ln carries for slot k = 0..7
Decoded(ln, k) == dcmp(ln, 8 + 2 * k, 2)

Slots == 0..(SBMS_CELL_COUNT_MAX - 1)

RECURSIVE SumOf(_, _)
SumOf(f, S) == IF S = {} THEN 0
               ELSE LET x == CHOOSE y \in S : TRUE IN f[x] + SumOf(f, S \ {x})

DecodedSum(ln) == SumOf([k \in Slots |-> Decoded(ln, k)], Slots)

RecordedSum(s) ==
    SumOf([i \in DOMAIN s.cells |-> IF s.cells[i] = None THEN 0 ELSE Val(s.cells[i])],
          DOMAIN s.cells)

\* bit i of x
Bit(x, i) == (x \div (2 ^ i)) % 2

\* the Python indices of the characters dcmp is called on
CodecOffsets == (6..27) \cup (29..31) \cup (56..58)

InAlphabet(c) == c \in 35..125

\* the numeral d_1 .. d_n in base 91, most significant first
RECURSIVE Horner(_)
Horner(ds) == IF ds = <<>> THEN 0
              ELSE Horner(SubSeq(ds, 1, Len(ds) - 1)) * 91 + ds[Len(ds)]

----------------------------------------------------------------------------
(* The properties *)

\* C1: a call of process_status_data on a line whose length is not 59 returns
\* False and leaves every field of the battery as it was.
C1_WrongLengthRejected ==
    [][(CallStep /\ Len(line') # 59) => (ret' = "False" /\ self' = self)]_vars

\* C1, its case: a line of 58 characters was rejected after a reading was taken
C1_Witness ==
    /\ ret = "False" /\ Len(line) = 58
    /\ self.soc = Some(50) /\ self.cell_count = Some(3)

\* C2: cell_count is inferred on the first frame of 59 characters, as the
\* number of slots decoding to a positive voltage, and no later frame changes it.
C2_CountInferredOnce ==
    [][/\ (CallStep /\ self.cell_count = None /\ Len(line') = 59) =>
              self'.cell_count = Some(Cardinality({k \in Slots : Decoded(line', k) > 0}))
       /\ self.cell_count # None => self'.cell_count = self.cell_count]_vars

\* C3: after _uart_rx handled a line that process_status_data rejected, the
\* callback is still registered with the event loop.
C3_RejectKeepsWatch ==
    [][(watch /\ ret' = "False") => watch']_vars

\* C3 as the code has it: _uart_rx answers False for a rejected line, which
\* removes the callback; from then on no line reaches the battery and the
\* callback is not registered again.  It stays after a decoded line.
C3_RejectRemovesWatch ==
    [][/\ (watch /\ ret' = "False") => ~watch'
       /\ (watch /\ ret' = "True") => watch'
       /\ (phase = "running" /\ ~watch) => (self' = self /\ ~watch')]_vars

\* C3, its case: the running driver lost its callback on a rejected line
C3_Witness ==
    phase = "running" /\ ~watch /\ ret = "False" /\ Len(line) # 59

\* C4: after a decoded frame the pack voltage is the sum of the voltages the
\* cells hold.
C4_VoltageIsRecordedSum ==
    ret = "True" => self.voltage = Some(RecordedSum(self))

\* C4 as the code has it: after a decoded frame the pack voltage is the sum of
\* the eight slot voltages this frame decodes to; it is the sum of the
\* voltages the cells hold when every slot either decodes to a positive
\* voltage or decodes to 0 and holds none.
C4_VoltageIsFrameSum ==
    ret = "True" =>
        /\ self.voltage = Some(DecodedSum(line))
        /\ (\A k \in Slots :
                \/ Decoded(line, k) > 0
                \/ Decoded(line, k) = 0 /\ self.cells[k + 1] = None)
             => self.voltage = Some(RecordedSum(self))

\* C4, its case: slots 1 and 7 hold 3300 mV from an earlier frame and decode to
\* 0 in this one
C4_Witness ==
    /\ ret = "True"
    /\ Decoded(line, 1) = 0 /\ self.cells[2] = Some(3300)
    /\ self.voltage = Some(3300) /\ RecordedSum(self) = 9900

\* C5: after a decoded frame cell_imbalance is 2 when the largest and the
\* smallest recorded cell voltage differ by more than 100 mV, 1 when by more
\* than 50 mV, else 0.
C5_ImbalanceByMillivolts ==
    (ret = "True" /\ RecordedVoltages(self) # {}) =>
        LET delta == SetMax(RecordedVoltages(self)) - SetMin(RecordedVoltages(self))
        IN  self.protection.cell_imbalance =
                Some(IF delta > 100 THEN 2 ELSE IF delta > 50 THEN 1 ELSE 0)

\* C6: after a decoded frame, status flag i (0..14) is set iff bit i of the
\* number decoded at offset 56 is 1; charge_fet and discharge_fet are bits 12
\* and 14; the levels that flags alone decide are 2 iff their flag is set, and
\* the two temp_high levels are 2 iff IOT is set or the battery charges at 40
\* degrees or more.  So flags = 2^12 + 2^14 gives both FETs on and these
\* levels 0 (the temp_high ones unless the temperature clause holds).
C6_FlagsAreBits ==
    ret = "True" =>
        LET flags == dcmp(line, 56, 3)
            st == status(flags)
            lvl(b) == Some(IF b = 1 THEN 2 ELSE 0)
            hot == Val(self.current).num > 0
                   /\ Max(Val(self.temp1), Val(self.temp2)) >= 400
            p == self.protection
        IN  /\ \A i \in 0..14 : st[i + 1] = (Bit(flags, i) = 1)
            /\ self.charge_fet = Some(Bit(flags, 12) = 1)
            /\ self.discharge_fet = Some(Bit(flags, 14) = 1)
            /\ p.voltage_high = lvl(Bit(flags, 1))
            /\ p.voltage_low = lvl(Bit(flags, 3))
            /\ p.voltage_cell_low = lvl(Bit(flags, 10))
            /\ p.current_over = lvl(Bit(flags, 5))
            /\ p.current_under = lvl(Bit(flags, 6))
            /\ p.internal_failure = lvl(Max(Bit(flags, 11), Bit(flags, 9)))
            /\ p.temp_high_charge = (IF hot THEN Some(2) ELSE lvl(Bit(flags, 4)))
            /\ p.temp_high_discharge = p.temp_high_charge
            /\ flags = 20480 =>
                  /\ self.charge_fet = Some(TRUE) /\ self.discharge_fet = Some(TRUE)
                  /\ \A f \in { "voltage_high", "voltage_low", "voltage_cell_low",
                               "current_over", "current_under", "internal_failure" } :
                        p[f] = Some(0)

\* C6, its case: a frame whose flags are 2^12 + 2^14 was decoded
C6_Witness ==
    /\ ret = "True" /\ dcmp(line, 56, 3) = 4096 + 16384
    /\ self.charge_fet = Some(TRUE) /\ self.discharge_fet = Some(TRUE)
    /\ self.protection.voltage_high = Some(0)

\* C7: on size characters with digits (code - 35) in 0..90, dcmp returns the
\* base-91 numeral they spell, the character at the highest index least
\* significant; the result is in 0 .. 91^size - 1, and writing it back as a
\* numeral of size digits gives the characters dcmp read.
C7_DcmpIsBase91 ==
    decomp # None =>
        LET v == Val(decomp)
            chars == SubSeq(comp, pos + 1, pos + size)
            digits == [i \in 1..size |-> chars[i] - 35]
        IN  /\ \A i \in 1..size : digits[i] \in 0..90
            /\ v = Horner(digits)
            /\ v \in 0..((91 ^ size) - 1)
            /\ enc(v, size) = chars

\* C7, its case: three characters, the first the most significant
C7_Witness ==
    decomp = Some(8281 + 2 * 91 + 90) /\ size = 3 /\ pos = 0 /\ comp = <<36, 37, 125>>

\* C8: on a frame of 59 alphabet characters the current is minus the magnitude
\* decoded at offset 29 when the character at offset 28 is '-', plus the
\* magnitude for any other character, and the call ends with a reading.
C8_AnyOtherCharIsPlus ==
    (ret # "none" /\ Len(line) = 59 /\ (\A i \in 1..59 : InAlphabet(line[i]))
       /\ RecordedVoltages(self) # {}) =>
        LET mag == dcmp(line, 29, 3)
        IN  /\ ret = "True"
            /\ self.current =
                  Some([num |-> IF ord(line, 28) = 45 THEN 0 - mag ELSE mag, den |-> 1])

\* C8 as the code has it: the character at offset 28 and the decimal numeral
\* of the magnitude are read together as one number.  '-' gives minus the
\* magnitude and '+' plus the magnitude, and then the call ends with a reading
\* whenever a cell voltage is recorded.  A digit character becomes a leading
\* digit and '.' a decimal point; any other character makes the call raise,
\* after cells, cell_count, soc and voltage were written.
C8_SignIsParsedWithMagnitude ==
    (ret # "none" /\ Len(line) = 59 /\ (\A i \in 1..59 : InAlphabet(line[i]))) =>
        LET mag == dcmp(line, 29, 3)
            ch == ord(line, 28)
            cur == Val(self.current)
        IN  /\ ret # "False"
            /\ (ch \in {43, 45} /\ RecordedVoltages(self) # {}) => ret = "True"
            /\ (ch = 45 /\ ret = "True") => (cur.num = 0 - mag /\ cur.den = 1)
            /\ (ch = 43 /\ ret = "True") => (cur.num = mag /\ cur.den = 1)
            /\ (ch \in 48..57 /\ ret = "True") =>
                  (cur.num = (ch - 48) * (10 ^ DecimalLen(mag)) + mag /\ cur.den = 1)
            /\ (ch = 46 /\ ret = "True") =>
                  (cur.num = mag /\ cur.den = 10 ^ DecimalLen(mag))
            /\ ch \notin ({43, 45, 46} \cup (48..57)) =>
                  /\ ret = "raise"
                  /\ RecordedVoltages(self) # {} =>
                        /\ self.soc = Some(dcmp(line, 6, 2))
                        /\ self.voltage = Some(DecodedSum(line))

\* C8, its case: '-' before a magnitude of 500 was read as -500 mA
C8_Witness ==
    /\ ret = "True" /\ ord(line, 28) = 45 /\ dcmp(line, 29, 3) = 500
    /\ self.current = Some([num |-> 0 - 500, den |-> 1])

\* C9: a frame of 59 characters in which a character dcmp reads is outside
\* '#'..'}' is refused, and no field of the battery is written from it.
C9_BadDigitRejected ==
    [][(CallStep /\ Len(line') = 59
          /\ \E p \in CodecOffsets : ~InAlphabet(ord(line', p)))
       => (ret' # "True" /\ self' = self)]_vars

\* C10: a frame of 59 characters writes a cell's voltage exactly when the
\* slot decodes to a positive voltage, and leaves the cell as it was (without
\* a voltage, before the cells exist) when it does not; a line of another
\* length leaves the cells alone.
C10_SlotKeepsLastPositive ==
    [][CallStep =>
         IF Len(line') = 59
         THEN \A k \in Slots :
                 self'.cells[k + 1] =
                     IF Decoded(line', k) > 0 THEN Some(Decoded(line', k))
                     ELSE IF self.cells = <<>> THEN None ELSE self.cells[k + 1]
         ELSE self'.cells = self.cells]_vars

\* C10, its case: slot 1 decodes to 0 and keeps the 3351 mV of an earlier frame
C10_Witness ==
    /\ ret # "none" /\ Len(line) = 59 /\ Decoded(line, 1) = 0
    /\ self.cells[2] = Some(3351) /\ self.cells[1] = Some(3300)

====
